---- MODULE Spec2Model ----
(***************************************************************************)
(* State-machine model of the two hardware services of sm8150-common:      *)
(*   - vibrator/Vibrator.cpp       (haptic effect sequencer, on/off)       *)
(*   - fod/FingerprintInscreen.cpp (brightness -> dim alpha, getDimAmount) *)
(* Every handler is one action; the sysfs writes it makes are threaded     *)
(* through a local record st = [ep, log] in program order.                 *)
(***************************************************************************)
EXTENDS Integers, Sequences, FiniteSets, TLC

VARIABLES
    endpoint,              \* vibrator sysfs node -> bytes last stored in it
    unopenable,            \* vibrator sysfs nodes whose open() fails
    mShouldSetBrightness,  \* Vibrator::mShouldSetBrightness
    writes,                \* the set() calls of the most recent Vibrator call
    last,                  \* the most recent Vibrator call and what it reported
    brightnessFile,        \* panel backlight node, as `file >> int` parses it
    hbmFile,               \* hbm node, as `file >> int` parses it
    dim,                   \* the most recent getDimAmount call
    mCallback,             \* FingerprintInscreen::mCallback
    mCallbackLock,         \* FingerprintInscreen::mCallbackLock: its owner
    mFodCircleVisible,     \* FingerprintInscreen::mFodCircleVisible
    pc,                    \* service thread -> where it is in its call
    frame,                 \* service thread -> arguments and locals of its call
    returned,              \* service thread -> what its last call returned
    lastView               \* the most recent of onShowFODView / onHideFODView

vibVars == <<endpoint, unopenable, mShouldSetBrightness, writes, last>>
fodVars == <<brightnessFile, hbmFile, dim>>
cbVars == <<mCallback, mCallbackLock, mFodCircleVisible, pc, frame, returned, lastView>>
vars == <<endpoint, unopenable, mShouldSetBrightness, writes, last,
          brightnessFile, hbmFile, dim, cbVars>>

(***************************************************************************)
(* Bounds of the model.                                                    *)
(***************************************************************************)
MaxTimeout == 1
MaxBrightness == 2002
MaxNegBrightness == 6
MaxHbm == 6
NumThreads == 2
MaxVendorCode == 2

(***************************************************************************)
(* C integer arithmetic: / truncates toward zero, % takes the sign of the  *)
(* dividend.                                                               *)
(***************************************************************************)
Abs(a) == IF a < 0 THEN -a ELSE a

CDiv(a, b) ==
    IF (a < 0) = (b < 0) THEN Abs(a) \div Abs(b) ELSE -(Abs(a) \div Abs(b))

CRem(a, b) == a - b * CDiv(a, b)

(***************************************************************************)
(* Vibrator.cpp                                                            *)
(***************************************************************************)
ACTIVATE_PATH == "activate"
BRIGHTNESS_PATH == "brightness"
CTRL_LOOP_PATH == "loop"
DURATION_PATH == "duration"
GAIN_PATH == "gain"
IGNORE_STORE_PATH == "ignore_store"
LP_TRIGGER_PATH == "haptic_audio"
LRA_WAVE_SHAPE_PATH == "lra_resistance"
MODE_PATH == "activate_mode"
RTP_INPUT_PATH == "rtp"
SCALE_PATH == "gain"
SEQ_PATH == "seq"
VMAX_PATH == "vmax"

Paths ==
    {ACTIVATE_PATH, BRIGHTNESS_PATH, CTRL_LOOP_PATH, DURATION_PATH, GAIN_PATH,
     IGNORE_STORE_PATH, LP_TRIGGER_PATH, LRA_WAVE_SHAPE_PATH, MODE_PATH,
     RTP_INPUT_PATH, SCALE_PATH, SEQ_PATH, VMAX_PATH}

RTP_MODE == "rtp"
MAX_RTP_INPUT == 127
MIN_RTP_INPUT == 0
WAVEFORM_MODE == "waveform"
SQUARE_WAVE == 0
SINE_WAVE == 1
GAIN == 128
LOOP_MODE_OPEN == 1
VMAX == 9

WAVEFORM_CLICK_EFFECT_SEQ == <<"0 1", "1 0">>
WAVEFORM_CLICK_EFFECT_CTRL_LOOPS == <<"0 0x0">>
WAVEFORM_CLICK_EFFECT_MS == 0
WAVEFORM_TICK_EFFECT_SEQ == <<"0 1", "1 0">>
WAVEFORM_TICK_EFFECT_CTRL_LOOPS == <<"1 0x0">>
WAVEFORM_TICK_EFFECT_MS == 0
WAVEFORM_DOUBLE_CLICK_EFFECT_SEQ == <<"0 1">>
WAVEFORM_DOUBLE_CLICK_EFFECT_CTRL_LOOPS == <<"0 0x0", "1 0x0">>
WAVEFORM_DOUBLE_CLICK_EFFECT_MS == 10
WAVEFORM_HEAVY_CLICK_EFFECT_SEQ == <<"0 0", "1 0">>
WAVEFORM_HEAVY_CLICK_EFFECT_CTRL_LOOPS == <<"1 0x1">>
WAVEFORM_HEAVY_CLICK_EFFECT_MS == 10
WAVEFORM_POP_EFFECT_MS == 5
WAVEFORM_THUD_EFFECT_MS == 10

\* A value handed to set(): its C++ type decides how operator<< formats it.
AsInt(n) == [type |-> "int", n |-> n, s |-> ""]
AsU8(n) == [type |-> "uint8_t", n |-> n, s |-> ""]
AsU32(n) == [type |-> "uint32_t", n |-> n, s |-> ""]
AsI32(n) == [type |-> "int32_t", n |-> n, s |-> ""]
AsStr(s) == [type |-> "cstr", n |-> 0, s |-> s]

\* The bytes of the string literals the service writes.
CStrBytes ==
    [s \in {"rtp", "waveform", "0 1", "1 0", "0 0", "0 0x0", "1 0x0", "1 0x1"} |->
        CASE s = "rtp" -> <<114, 116, 112>>
          [] s = "waveform" -> <<119, 97, 118, 101, 102, 111, 114, 109>>
          [] s = "0 1" -> <<48, 32, 49>>
          [] s = "1 0" -> <<49, 32, 48>>
          [] s = "0 0" -> <<48, 32, 48>>
          [] s = "0 0x0" -> <<48, 32, 48, 120, 48>>
          [] s = "1 0x0" -> <<49, 32, 48, 120, 48>>
          [] s = "1 0x1" -> <<49, 32, 48, 120, 49>>]

RECURSIVE Digits(_)
Digits(n) == IF n < 10 THEN <<48 + n>> ELSE Append(Digits(n \div 10), 48 + (n % 10))

\* std::ostream << value: decimal text for the integer types, the characters of
\* a C string, and ONE raw character for a uint8_t (unsigned char).
Format(value) ==
    CASE value.type = "uint8_t" -> <<value.n>>
      [] value.type = "cstr" -> CStrBytes[value.s]
      [] OTHER -> IF value.n < 0 THEN <<45>> \o Digits(-value.n) ELSE Digits(value.n)

\* set(path, value): open the node, give up when it does not open, else store.
set(st, path, value) ==
    [ep |-> IF path \in unopenable THEN st.ep
            ELSE [st.ep EXCEPT ![path] = Format(value)],
     log |-> Append(st.log, [path |-> path, value |-> value])]

RECURSIVE setAll(_, _, _)
\* for (const auto& x : list) set(path, x);
setAll(st, path, list) ==
    IF list = <<>> THEN st
    ELSE setAll(set(st, path, AsStr(Head(list))), path, Tail(list))

Start == [ep |-> endpoint, log |-> <<>>]

Call(op, effect, strength, amplitude, timeoutMs, status, timeMs) ==
    [op |-> op, effect |-> effect, strength |-> strength, amplitude |-> amplitude,
     timeoutMs |-> timeoutMs, status |-> status, timeMs |-> timeMs]

\* Mutant of on_isWaveform: the legacy branch raises activate before it clears
\* brightness.
on_isWaveformActivateFirst(st, shouldSetBrightness, timeoutMs, isWaveform) ==
    LET s1 == set(st, CTRL_LOOP_PATH, AsU8(LOOP_MODE_OPEN))
        s2 == set(s1, DURATION_PATH, AsU32(timeoutMs))
        s3 == IF isWaveform
              THEN set(set(s2, MODE_PATH, AsStr(WAVEFORM_MODE)),
                       LRA_WAVE_SHAPE_PATH, AsU8(SINE_WAVE))
              ELSE set(set(s2, MODE_PATH, AsStr(RTP_MODE)),
                       LRA_WAVE_SHAPE_PATH, AsU8(SQUARE_WAVE))
    IN  IF shouldSetBrightness
        THEN set(s3, BRIGHTNESS_PATH, AsInt(1))
        ELSE set(set(s3, ACTIVATE_PATH, AsInt(1)), BRIGHTNESS_PATH, AsInt(0))

\* Vibrator::on(uint32_t timeoutMs, bool isWaveform)
on_isWaveform(st, shouldSetBrightness, timeoutMs, isWaveform) ==
    LET s1 == set(st, CTRL_LOOP_PATH, AsU8(LOOP_MODE_OPEN))
        s2 == set(s1, DURATION_PATH, AsU32(timeoutMs))
        s3 == IF isWaveform
              THEN set(set(s2, MODE_PATH, AsStr(WAVEFORM_MODE)),
                       LRA_WAVE_SHAPE_PATH, AsU8(SINE_WAVE))
              ELSE set(set(s2, MODE_PATH, AsStr(RTP_MODE)),
                       LRA_WAVE_SHAPE_PATH, AsU8(SQUARE_WAVE))
    IN  IF shouldSetBrightness
        THEN set(s3, BRIGHTNESS_PATH, AsInt(1))
        ELSE set(set(s3, BRIGHTNESS_PATH, AsInt(0)), ACTIVATE_PATH, AsInt(1))

\* Mutant of on: mShouldSetBrightness is not cleared before on(timeoutMs, false).
onKeepsFlag(timeoutMs) ==
    LET st == on_isWaveform(Start, mShouldSetBrightness, timeoutMs, FALSE)
    IN  /\ mShouldSetBrightness' = mShouldSetBrightness
        /\ endpoint' = st.ep
        /\ writes' = st.log
        /\ last' = Call("on", "", "", 0, timeoutMs, "OK", 0)
        /\ UNCHANGED <<unopenable, brightnessFile, hbmFile, dim, cbVars>>

\* Vibrator::on(uint32_t timeoutMs)
on(timeoutMs) ==
    LET st == on_isWaveform(Start, FALSE, timeoutMs, FALSE)
    IN  /\ mShouldSetBrightness' = FALSE
        /\ endpoint' = st.ep
        /\ writes' = st.log
        /\ last' = Call("on", "", "", 0, timeoutMs, "OK", 0)
        /\ UNCHANGED <<unopenable, brightnessFile, hbmFile, dim, cbVars>>

\* Mutant of offWrites: the activate channel is cleared first.
offWritesActivateFirst(st) == set(set(st, ACTIVATE_PATH, AsInt(0)), BRIGHTNESS_PATH, AsInt(0))

\* Mutant of offWrites: only the brightness channel is cleared.
offWritesBrightnessOnly(st) == set(st, BRIGHTNESS_PATH, AsInt(0))

\* Vibrator::off()
offWrites(st) == set(set(st, BRIGHTNESS_PATH, AsInt(0)), ACTIVATE_PATH, AsInt(0))

off ==
    LET st == offWrites(Start)
    IN  /\ endpoint' = st.ep
        /\ writes' = st.log
        /\ last' = Call("off", "", "", 0, 0, "OK", 0)
        /\ UNCHANGED <<unopenable, mShouldSetBrightness, brightnessFile, hbmFile, dim, cbVars>>

\* std::round(x) of x = num / den (den > 0, num >= 0): halves away from zero.
\* (amplitude - 1) / 254.0 * 127 is evaluated in double; for every uint8_t
\* amplitude the double product is the exact rational (amplitude - 1) / 2.
RoundDiv(num, den) == (2 * num + den) \div (2 * den)

\* Mutant of rtpValue: the product is truncated instead of rounded.
rtpValueTruncated(amplitude) ==
    ((amplitude - 1) * (MAX_RTP_INPUT - MIN_RTP_INPUT)) \div 254 + MIN_RTP_INPUT

rtpValue(amplitude) ==
    RoundDiv((amplitude - 1) * (MAX_RTP_INPUT - MIN_RTP_INPUT), 254) + MIN_RTP_INPUT

\* Vibrator::setAmplitude(uint8_t amplitude)
setAmplitude(amplitude) ==
    LET st == IF amplitude = 0 THEN Start
              ELSE set(Start, RTP_INPUT_PATH, AsI32(rtpValue(amplitude)))
    IN  /\ endpoint' = st.ep
        /\ writes' = st.log
        /\ last' = Call("setAmplitude", "", "", amplitude, 0,
                        IF amplitude = 0 THEN "BAD_VALUE" ELSE "OK", 0)
        /\ UNCHANGED <<unopenable, mShouldSetBrightness, brightnessFile, hbmFile, dim, cbVars>>

\* std::optional<T>: the empty sequence, or the one value it holds.
None == <<>>
Some(x) == <<x>>

Effects == {"CLICK", "DOUBLE_CLICK", "TICK", "THUD", "POP", "HEAVY_CLICK", "RINGTONE_1"}
EffectStrengths == {"LIGHT", "MEDIUM", "STRONG", "OTHER"}

\* Mutant of convertEffectStrength: MEDIUM does not fall through to STRONG.
convertEffectStrengthNoFallthrough(strength) ==
    CASE strength = "LIGHT" -> 54
      [] strength = "STRONG" -> 107
      [] OTHER -> 0

\* convertEffectStrength (lambda in Vibrator::performEffect)
convertEffectStrength(strength) ==
    CASE strength = "LIGHT" -> 54
      [] strength \in {"MEDIUM", "STRONG"} -> 107
      [] OTHER -> 0

\* Mutant of setEffect: the control loops are written before the sequences.
setEffectLoopsFirst(st, sequences, ctrlLoops, duration, vmax, gain) ==
    LET s1 == set(set(st, ACTIVATE_PATH, AsInt(0)), IGNORE_STORE_PATH, AsInt(0))
        s2 == IF duration # None THEN set(s1, DURATION_PATH, AsInt(duration[1])) ELSE s1
        s3 == IF vmax # None THEN set(s2, VMAX_PATH, AsU8(vmax[1])) ELSE s2
        s4 == IF gain # None THEN set(s3, GAIN_PATH, AsU8(gain[1])) ELSE s3
        s5 == IF ctrlLoops # None THEN setAll(s4, CTRL_LOOP_PATH, ctrlLoops[1]) ELSE s4
    IN  IF sequences # None THEN setAll(s5, SEQ_PATH, sequences[1]) ELSE s5

\* setEffect (lambda in Vibrator::performEffect)
setEffect(st, sequences, ctrlLoops, duration, vmax, gain) ==
    LET s1 == set(set(st, ACTIVATE_PATH, AsInt(0)), IGNORE_STORE_PATH, AsInt(0))
        s2 == IF duration # None THEN set(s1, DURATION_PATH, AsInt(duration[1])) ELSE s1
        s3 == IF vmax # None THEN set(s2, VMAX_PATH, AsU8(vmax[1])) ELSE s2
        s4 == IF gain # None THEN set(s3, GAIN_PATH, AsU8(gain[1])) ELSE s3
        s5 == IF sequences # None THEN setAll(s4, SEQ_PATH, sequences[1]) ELSE s4
    IN  IF ctrlLoops # None THEN setAll(s5, CTRL_LOOP_PATH, ctrlLoops[1]) ELSE s5

Descriptor(sequences, ctrlLoops, duration, vmax, gain, timeMS) ==
    [sequences |-> sequences, ctrlLoops |-> ctrlLoops, duration |-> duration,
     vmax |-> vmax, gain |-> gain, timeMS |-> timeMS]

\* Mutant of effectCase: the switch has no default, an unknown effect runs the
\* last case.
effectCaseNoDefault(effect) ==
    IF effect \in {"CLICK", "DOUBLE_CLICK", "TICK", "HEAVY_CLICK", "POP"}
    THEN Some(Descriptor(None, None, Some(0), Some(VMAX), Some(GAIN),
                         WAVEFORM_POP_EFFECT_MS))
    ELSE Some(Descriptor(None, None, Some(0), Some(VMAX), Some(GAIN),
                         WAVEFORM_THUD_EFFECT_MS))

\* switch (effect) in Vibrator::performEffect: the arguments of setEffect and
\* timeMS of each case; None for the default case.
effectCase(effect) ==
    CASE effect = "CLICK" ->
            Some(Descriptor(Some(WAVEFORM_CLICK_EFFECT_SEQ),
                            Some(WAVEFORM_CLICK_EFFECT_CTRL_LOOPS),
                            None, Some(VMAX), Some(GAIN), WAVEFORM_CLICK_EFFECT_MS))
      [] effect = "DOUBLE_CLICK" ->
            Some(Descriptor(Some(WAVEFORM_DOUBLE_CLICK_EFFECT_SEQ),
                            Some(WAVEFORM_DOUBLE_CLICK_EFFECT_CTRL_LOOPS),
                            None, Some(VMAX), Some(GAIN), WAVEFORM_DOUBLE_CLICK_EFFECT_MS))
      [] effect = "TICK" ->
            Some(Descriptor(Some(WAVEFORM_TICK_EFFECT_SEQ),
                            Some(WAVEFORM_TICK_EFFECT_CTRL_LOOPS),
                            None, Some(VMAX), Some(GAIN), WAVEFORM_TICK_EFFECT_MS))
      [] effect = "HEAVY_CLICK" ->
            Some(Descriptor(Some(WAVEFORM_HEAVY_CLICK_EFFECT_SEQ),
                            Some(WAVEFORM_HEAVY_CLICK_EFFECT_CTRL_LOOPS),
                            None, Some(VMAX), Some(GAIN), WAVEFORM_HEAVY_CLICK_EFFECT_MS))
      [] effect = "POP" ->
            Some(Descriptor(None, None, Some(0), Some(VMAX), Some(GAIN),
                            WAVEFORM_POP_EFFECT_MS))
      [] effect = "THUD" ->
            Some(Descriptor(None, None, Some(0), Some(VMAX), Some(GAIN),
                            WAVEFORM_THUD_EFFECT_MS))
      [] OTHER -> None

\* Mutant of performWrites: on() runs before mShouldSetBrightness is raised.
performWritesFlagLate(st, d, strength) ==
    LET s1 == setEffect(st, d.sequences, d.ctrlLoops, d.duration, d.vmax, d.gain)
        s2 == set(s1, SCALE_PATH, AsU8(convertEffectStrength(strength)))
    IN  on_isWaveform(s2, FALSE, d.timeMS, TRUE)

\* The set() calls of a recognized effect, in program order: setEffect, the
\* scale write, then on(timeMS, true) with mShouldSetBrightness already true.
performWrites(st, d, strength) ==
    LET s1 == setEffect(st, d.sequences, d.ctrlLoops, d.duration, d.vmax, d.gain)
        s2 == set(s1, SCALE_PATH, AsU8(convertEffectStrength(strength)))
    IN  on_isWaveform(s2, TRUE, d.timeMS, TRUE)

\* Vibrator::performEffect(effect, strength, _hidl_cb), reached from perform,
\* perform_1_1 and perform_1_2.
performEffect(effect, strength) ==
    LET c == effectCase(effect)
        st == IF c = None THEN Start ELSE performWrites(Start, c[1], strength)
    IN  /\ mShouldSetBrightness' = (c # None)
        /\ endpoint' = st.ep
        /\ writes' = st.log
        /\ last' = IF c = None
                   THEN Call("performEffect", effect, strength, 0, 0,
                             "UNSUPPORTED_OPERATION", 0)
                   ELSE Call("performEffect", effect, strength, 0, 0, "OK", c[1].timeMS)
        /\ UNCHANGED <<unopenable, brightnessFile, hbmFile, dim, cbVars>>

\* What a node holds before this process stores anything in it.
Unwritten == <<>>

\* Vibrator::Vibrator(): writes haptic_audio and does not initialise
\* mShouldSetBrightness, which both callers of on(uint32_t, bool) assign
\* before it is read.
Constructed ==
    /\ endpoint = set([ep |-> [p \in Paths |-> Unwritten], log |-> <<>>],
                      LP_TRIGGER_PATH, AsInt(1)).ep
    /\ writes = <<[path |-> LP_TRIGGER_PATH, value |-> AsInt(1)]>>
    /\ mShouldSetBrightness \in BOOLEAN
    /\ last = Call("Vibrator", "", "", 0, 0, "OK", 0)

(***************************************************************************)
(* FingerprintInscreen.cpp                                                 *)
(***************************************************************************)
\* struct ba { std::uint32_t brightness; std::uint32_t alpha; }
ba(brightness, alpha) == [brightness |-> brightness, alpha |-> alpha]

\* Mutant of brightness_alpha_lut_1: the first alpha typed with a digit too
\* many (0x1ff).
brightness_alpha_lut_1WideAlpha ==
    <<ba(0, 511), ba(1, 241), ba(2, 240), ba(3, 238), ba(4, 236), ba(6, 235),
      ba(10, 231), ba(20, 223), ba(30, 216), ba(45, 208), ba(70, 197),
      ba(100, 185), ba(150, 175), ba(227, 153), ba(300, 136), ba(400, 118),
      ba(500, 102), ba(600, 89), ba(800, 66), ba(1023, 42), ba(2000, 131)>>

brightness_alpha_lut_1 ==
    <<ba(0, 255), ba(1, 241), ba(2, 240), ba(3, 238), ba(4, 236), ba(6, 235),
      ba(10, 231), ba(20, 223), ba(30, 216), ba(45, 208), ba(70, 197),
      ba(100, 185), ba(150, 175), ba(227, 153), ba(300, 136), ba(400, 118),
      ba(500, 102), ba(600, 89), ba(800, 66), ba(1023, 42), ba(2000, 131)>>

\* ARRAY_SIZE(brightness_alpha_lut)
ARRAY_SIZE == 21

\* brightness_alpha_lut[21], as the constructor fills it from
\* brightness_alpha_lut_1 (C indices 0..20).
brightness_alpha_lut == [i \in 0..(ARRAY_SIZE - 1) |-> brightness_alpha_lut_1[i + 1]]

\* A 32-bit value converted to std::uint32_t, as <<high 16 bits, low 16 bits>>.
ToUint32(x) == <<(x \div 65536) % 65536, x % 65536>>

\* a >= b on two std::uint32_t.
UnsignedGe(a, b) == a[1] > b[1] \/ (a[1] = b[1] /\ a[2] >= b[2])

\* brightness_alpha_lut[i].brightness >= brightness: the int operand is
\* converted to unsigned before the comparison.
lutAtLeast(i, brightness) ==
    UnsignedGe(ToUint32(brightness_alpha_lut[i].brightness), ToUint32(brightness))

\* Mutant of interpolate: the correction term is divided by (xb - xa).
interpolateSubByDx(x, xa, xb, ya, yb) ==
    LET bf == CDiv(2 * (yb - ya) * (x - xa), xb - xa)
        factor == CDiv(bf, 2)
        plus == CRem(bf, 2)
        sub == IF (xa - xb) # 0 /\ (yb - ya) # 0
               THEN CDiv(CDiv(2 * (x - xa) * (x - xb), yb - ya), xb - xa)
               ELSE 0
    IN  ya + factor + plus + sub

\* Mutant of interpolate: bf misses the factor 2.
interpolateNoDouble(x, xa, xb, ya, yb) ==
    LET bf == CDiv((yb - ya) * (x - xa), xb - xa)
        factor == CDiv(bf, 2)
        plus == CRem(bf, 2)
        sub == IF (xa - xb) # 0 /\ (yb - ya) # 0
               THEN CDiv(CDiv(2 * (x - xa) * (x - xb), yb - ya), xa - xb)
               ELSE 0
    IN  ya + factor + plus + sub

\* Mutant of interpolate: factor is bf, not bf / 2.
interpolateFactorNotHalved(x, xa, xb, ya, yb) ==
    LET bf == CDiv(2 * (yb - ya) * (x - xa), xb - xa)
        factor == bf
        plus == CRem(bf, 2)
        sub == IF (xa - xb) # 0 /\ (yb - ya) # 0
               THEN CDiv(CDiv(2 * (x - xa) * (x - xb), yb - ya), xa - xb)
               ELSE 0
    IN  ya + factor + plus + sub

\* interpolate(x, xa, xb, ya, yb)
interpolate(x, xa, xb, ya, yb) ==
    LET bf == CDiv(2 * (yb - ya) * (x - xa), xb - xa)
        factor == CDiv(bf, 2)
        plus == CRem(bf, 2)
        sub == IF (xa - xb) # 0 /\ (yb - ya) # 0
               THEN CDiv(CDiv(2 * (x - xa) * (x - xb), yb - ya), xa - xb)
               ELSE 0
    IN  ya + factor + plus + sub

RECURSIVE scan(_, _)
\* for (i = 0; i < ARRAY_SIZE(brightness_alpha_lut); i++) if (...) break;
scan(i, brightness) ==
    IF i < ARRAY_SIZE /\ ~lutAtLeast(i, brightness) THEN scan(i + 1, brightness) ELSE i

\* Mutant of brightness_to_alpha: an exhausted scan is clamped like i == 0.
brightness_to_alphaOneClamp(brightness) ==
    LET level == ARRAY_SIZE
        i == scan(0, brightness)
    IN  IF i = 0 \/ i = level THEN brightness_alpha_lut[0].alpha
        ELSE interpolate(brightness,
                         brightness_alpha_lut[i - 1].brightness,
                         brightness_alpha_lut[i].brightness,
                         brightness_alpha_lut[i - 1].alpha,
                         brightness_alpha_lut[i].alpha)

\* brightness_to_alpha(brightness)
brightness_to_alpha(brightness) ==
    LET level == ARRAY_SIZE
        i == scan(0, brightness)
    IN  IF i = 0 THEN brightness_alpha_lut[0].alpha
        ELSE IF i = level THEN brightness_alpha_lut[level - 1].alpha
        ELSE interpolate(brightness,
                         brightness_alpha_lut[i - 1].brightness,
                         brightness_alpha_lut[i].brightness,
                         brightness_alpha_lut[i - 1].alpha,
                         brightness_alpha_lut[i].alpha)

\* A sysfs node as `file >> result` sees it: ok is FALSE when the node is
\* missing or does not parse as an int.
File(n) == [ok |-> TRUE, n |-> n]
NoFile == [ok |-> FALSE, n |-> 0]

\* get(path, def)
get(file, def) == IF file.ok THEN file.n ELSE def

DimCall(op, brightness, alpha, hbmMode, dimAmount) ==
    [op |-> op, brightness |-> brightness, alpha |-> alpha, hbmMode |-> hbmMode,
     dimAmount |-> dimAmount]

\* Mutant of hbmOverride: every mode from 5 up overrides.
hbmOverrideFrom5(dimAmount, hbmMode) == IF hbmMode >= 5 THEN 42 ELSE dimAmount

\* if (hbmMode == 5) dimAmount = 42;
hbmOverride(dimAmount, hbmMode) == IF hbmMode = 5 THEN 42 ELSE dimAmount

\* FingerprintInscreen::getDimAmount (the side of the merge that reads the
\* panel brightness and HBM_PATH)
getDimAmount ==
    LET brightness == get(brightnessFile, 0)
        dimAmount == brightness_to_alpha(brightness)
        hbmMode == get(hbmFile, 0)
    IN  /\ dim' = DimCall("getDimAmount", brightness, dimAmount, hbmMode,
                          hbmOverride(dimAmount, hbmMode))
        /\ UNCHANGED <<brightnessFile, hbmFile, endpoint, unopenable,
                       mShouldSetBrightness, writes, last, cbVars>>

NoDim == DimCall("none", 0, 0, 0, 0)

\* The panel brightness values the model reads: every table segment, both
\* clamps, small negative values and the ends of the int range.
BrightnessInputs ==
    ((-MaxNegBrightness)..MaxBrightness) \cup {5000, 65536, 2147483647, -65536, -2147483647}

HbmInputs == 0..MaxHbm

(***************************************************************************)
(* FingerprintInscreen.cpp: the callback reference and its lock.  The      *)
(* service answers its calls on a pool of threads; a thread is idle or     *)
(* inside one setCallback or handleAcquired call, which it runs in steps:  *)
(* the call arrives, the lock_guard takes mCallbackLock, the body runs.    *)
(***************************************************************************)
Threads == 1..NumThreads

\* A null sp<IFingerprintInscreenCallback>, and the non-null ones.
nullptr == "nullptr"
Callbacks == {"cb1", "cb2"}

FINGERPRINT_ACQUIRED_VENDOR == 6

\* The acquiredInfo and vendorCode values handleAcquired is called with.
AcquiredInfos == {0, FINGERPRINT_ACQUIRED_VENDOR}
VendorCodes == 0..MaxVendorCode

\* mCallbackLock when no thread owns it.
Unlocked == 0

Frame(op, callback, acquiredInfo, vendorCode, method, target) ==
    [op |-> op, callback |-> callback, acquiredInfo |-> acquiredInfo,
     vendorCode |-> vendorCode, method |-> method, target |-> target]

NoFrame == Frame("none", nullptr, 0, 0, "none", nullptr)

\* What a call returned: its result, the callback methods it invoked, and
\* whether it logged an error.  NoReturn while the thread's call is running.
Returned(op, result, invoked, logged) ==
    [op |-> op, result |-> result, invoked |-> invoked, logged |-> logged]

NoReturn == Returned("none", "none", <<>>, FALSE)

\* FingerprintInscreen::FingerprintInscreen: mFodCircleVisible = false; the
\* sp<> member is null and the mutex unowned by default construction.
CbConstructed ==
    /\ mCallback = nullptr
    /\ mCallbackLock = Unlocked
    /\ mFodCircleVisible = FALSE
    /\ pc = [t \in Threads |-> "idle"]
    /\ frame = [t \in Threads |-> NoFrame]
    /\ returned = [t \in Threads |-> NoReturn]
    /\ lastView = "none"

\* FingerprintInscreen::onShowFODView
onShowFODView ==
    /\ mFodCircleVisible' = TRUE
    /\ lastView' = "onShowFODView"
    /\ UNCHANGED <<mCallback, mCallbackLock, pc, frame, returned, vibVars, fodVars>>

\* FingerprintInscreen::onHideFODView (the display-service calls and the
\* FOD_HBM write touch no state of this model)
onHideFODView ==
    /\ mFodCircleVisible' = FALSE
    /\ lastView' = "onHideFODView"
    /\ UNCHANGED <<mCallback, mCallbackLock, pc, frame, returned, vibVars, fodVars>>

\* A setCallback(callback) call arrives on thread t.
setCallbackCall(t, callback) ==
    /\ pc[t] = "idle"
    /\ pc' = [pc EXCEPT ![t] = "setCallback_lock"]
    /\ frame' = [frame EXCEPT ![t] = Frame("setCallback", callback, 0, 0, "none", nullptr)]
    /\ returned' = [returned EXCEPT ![t] = NoReturn]
    /\ UNCHANGED <<mCallback, mCallbackLock, mFodCircleVisible, lastView, vibVars, fodVars>>

\* Mutant of setCallbackLock: the store is not made under the lock's
\* exclusion (the guard does not wait for the owner).
setCallbackLockNoWait(t) ==
    /\ pc[t] = "setCallback_lock"
    /\ mCallbackLock' = t
    /\ pc' = [pc EXCEPT ![t] = "setCallback_locked"]
    /\ UNCHANGED <<mCallback, mFodCircleVisible, frame, returned, lastView, vibVars, fodVars>>

\* std::lock_guard<std::mutex> _lock(mCallbackLock) in setCallback: blocks
\* while another thread owns the mutex.
setCallbackLock(t) ==
    /\ pc[t] = "setCallback_lock"
    /\ mCallbackLock = Unlocked
    /\ mCallbackLock' = t
    /\ pc' = [pc EXCEPT ![t] = "setCallback_locked"]
    /\ UNCHANGED <<mCallback, mFodCircleVisible, frame, returned, lastView, vibVars, fodVars>>

\* mCallback = callback; the guard's block ends; return Void().
setCallbackStore(t) ==
    /\ pc[t] = "setCallback_locked"
    /\ mCallback' = frame[t].callback
    /\ mCallbackLock' = Unlocked
    /\ pc' = [pc EXCEPT ![t] = "idle"]
    /\ frame' = [frame EXCEPT ![t] = NoFrame]
    /\ returned' = [returned EXCEPT ![t] = Returned("setCallback", "Void", <<>>, FALSE)]
    /\ UNCHANGED <<mFodCircleVisible, lastView, vibVars, fodVars>>

\* A handleAcquired(acquiredInfo, vendorCode) call arrives on thread t.
handleAcquiredCall(t, acquiredInfo, vendorCode) ==
    /\ pc[t] = "idle"
    /\ pc' = [pc EXCEPT ![t] = "handleAcquired_lock"]
    /\ frame' = [frame EXCEPT
                   ![t] = Frame("handleAcquired", nullptr, acquiredInfo, vendorCode,
                                "none", nullptr)]
    /\ returned' = [returned EXCEPT ![t] = NoReturn]
    /\ UNCHANGED <<mCallback, mCallbackLock, mFodCircleVisible, lastView, vibVars, fodVars>>

\* std::lock_guard<std::mutex> _lock(mCallbackLock) in handleAcquired.
handleAcquiredLock(t) ==
    /\ pc[t] = "handleAcquired_lock"
    /\ mCallbackLock = Unlocked
    /\ mCallbackLock' = t
    /\ pc' = [pc EXCEPT ![t] = "handleAcquired_locked"]
    /\ UNCHANGED <<mCallback, mFodCircleVisible, frame, returned, lastView, vibVars, fodVars>>

\* Mutant of handleAcquiredMethod: the finger-up branch does not test
\* mFodCircleVisible.
handleAcquiredMethodUpUnconditional(callback, visible, acquiredInfo, vendorCode) ==
    IF callback = nullptr THEN "none"
    ELSE IF acquiredInfo = FINGERPRINT_ACQUIRED_VENDOR /\ visible /\ vendorCode = 0
    THEN "onFingerDown"
    ELSE IF acquiredInfo = FINGERPRINT_ACQUIRED_VENDOR /\ vendorCode = 1
    THEN "onFingerUp"
    ELSE "none"

\* The branches of handleAcquired: the callback method it invokes, "none"
\* where it returns false.
handleAcquiredMethod(callback, visible, acquiredInfo, vendorCode) ==
    IF callback = nullptr THEN "none"
    ELSE IF acquiredInfo = FINGERPRINT_ACQUIRED_VENDOR /\ visible /\ vendorCode = 0
    THEN "onFingerDown"
    ELSE IF acquiredInfo = FINGERPRINT_ACQUIRED_VENDOR /\ visible /\ vendorCode = 1
    THEN "onFingerUp"
    ELSE "none"

\* The body of handleAcquired up to the callback invocation or to return
\* false (which ends the guard).  mFodCircleVisible is read without a lock;
\* each outcome depends on one read of it.
handleAcquiredCheck(t) ==
    LET method == handleAcquiredMethod(mCallback, mFodCircleVisible,
                                       frame[t].acquiredInfo, frame[t].vendorCode)
    IN  /\ pc[t] = "handleAcquired_locked"
        /\ IF method = "none"
           THEN /\ pc' = [pc EXCEPT ![t] = "idle"]
                /\ frame' = [frame EXCEPT ![t] = NoFrame]
                /\ returned' = [returned EXCEPT
                                  ![t] = Returned("handleAcquired", "false", <<>>, FALSE)]
                /\ mCallbackLock' = Unlocked
           ELSE /\ pc' = [pc EXCEPT ![t] = "handleAcquired_invoking"]
                /\ frame' = [frame EXCEPT ![t].method = method, ![t].target = mCallback]
                /\ UNCHANGED <<returned, mCallbackLock>>
        /\ UNCHANGED <<mCallback, mFodCircleVisible, lastView, vibVars, fodVars>>

\* mCallback->onFingerDown() / onFingerUp() comes back, ok or not; an error
\* is logged; return true ends the guard.
handleAcquiredReturn(t, isOk) ==
    /\ pc[t] = "handleAcquired_invoking"
    /\ pc' = [pc EXCEPT ![t] = "idle"]
    /\ returned' = [returned EXCEPT
                      ![t] = Returned("handleAcquired", "true", <<frame[t].method>>, ~isOk)]
    /\ frame' = [frame EXCEPT ![t] = NoFrame]
    /\ mCallbackLock' = Unlocked
    /\ UNCHANGED <<mCallback, mFodCircleVisible, lastView, vibVars, fodVars>>

(***************************************************************************)
(* Specifications.                                                         *)
(***************************************************************************)
\* The vibrator service on a device where every node opens: any sequence of
\* calls, one at a time (the HAL is served by a single thread).
Init ==
    /\ unopenable = {}
    /\ Constructed
    /\ brightnessFile = NoFile
    /\ hbmFile = NoFile
    /\ dim = NoDim
    /\ CbConstructed

\* uint8_t amplitudes the sequencer specifications draw from.
AmplitudeSamples == {0, 1, 2, 128, 255}

Next ==
    \/ \E timeoutMs \in 0..MaxTimeout : on(timeoutMs)
    \/ off
    \/ \E amplitude \in AmplitudeSamples : setAmplitude(amplitude)
    \/ \E effect \in Effects, strength \in EffectStrengths : performEffect(effect, strength)

Spec == Init /\ [][Next]_vars

\* The same service on a device where one node (or none) does not open.
FaultyNodes ==
    {ACTIVATE_PATH, BRIGHTNESS_PATH, CTRL_LOOP_PATH, DURATION_PATH, GAIN_PATH,
     RTP_INPUT_PATH}

FaultInit ==
    /\ unopenable \in {{}} \cup {{p} : p \in FaultyNodes}
    /\ Constructed
    /\ brightnessFile = NoFile
    /\ hbmFile = NoFile
    /\ dim = NoDim
    /\ CbConstructed

SpecFault == FaultInit /\ [][Next]_vars

\* The amplitude law over the whole uint8_t range, between the other calls.
AmpNext ==
    \/ \E amplitude \in 0..255 : setAmplitude(amplitude)
    \/ off
    \/ on(MaxTimeout)
    \/ \E effect \in {"CLICK", "RINGTONE_1"} : performEffect(effect, "STRONG")

SpecAmp == Init /\ [][AmpNext]_vars

\* The fingerprint service answering getDimAmount for any content of the two
\* nodes it reads.
FodInit ==
    /\ unopenable = {}
    /\ Constructed
    /\ mShouldSetBrightness = FALSE
    /\ brightnessFile \in {NoFile} \cup {File(n) : n \in BrightnessInputs}
    /\ hbmFile \in {NoFile} \cup {File(n) : n \in HbmInputs}
    /\ dim = NoDim
    /\ CbConstructed

FodNext == getDimAmount

SpecFod == FodInit /\ [][FodNext]_vars

\* The fingerprint service with its callback: registrations and acquired
\* events arriving on the service threads in any interleaving, the FOD view
\* shown and hidden in between.
CbInit ==
    /\ unopenable = {}
    /\ Constructed
    /\ mShouldSetBrightness = FALSE
    /\ brightnessFile = NoFile
    /\ hbmFile = NoFile
    /\ dim = NoDim
    /\ CbConstructed

CbNext ==
    \/ onShowFODView
    \/ onHideFODView
    \/ \E t \in Threads, callback \in Callbacks \cup {nullptr} : setCallbackCall(t, callback)
    \/ \E t \in Threads : setCallbackLock(t)
    \/ \E t \in Threads : setCallbackStore(t)
    \/ \E t \in Threads, acquiredInfo \in AcquiredInfos, vendorCode \in VendorCodes :
          handleAcquiredCall(t, acquiredInfo, vendorCode)
    \/ \E t \in Threads : handleAcquiredLock(t)
    \/ \E t \in Threads : handleAcquiredCheck(t)
    \/ \E t \in Threads, isOk \in BOOLEAN : handleAcquiredReturn(t, isOk)

SpecCb == CbInit /\ [][CbNext]_vars

\* The steps thread t takes inside a call it has started.
CbStep(t) ==
    \/ setCallbackLock(t)
    \/ setCallbackStore(t)
    \/ handleAcquiredLock(t)
    \/ handleAcquiredCheck(t)
    \/ \E isOk \in BOOLEAN : handleAcquiredReturn(t, isOk)

\* The scheduler runs every thread that can take a step, and every callback
\* invocation comes back.
CbFairness == \A t \in Threads : WF_vars(CbStep(t))

SpecCbFair == SpecCb /\ CbFairness

(***************************************************************************)
(* Properties of the haptic effect sequencer.                              *)
(***************************************************************************)
RecognizedEffects == {"CLICK", "DOUBLE_CLICK", "TICK", "HEAVY_CLICK", "POP", "THUD"}

\* A set() call as <<node, number, string>>, and the two shapes it is compared to.
Wr(w) == <<w.path, w.value.n, w.value.s>>
Num(path, n) == <<path, n, "">>
Txt(path, s) == <<path, 0, s>>
Wrs == [j \in 1..Len(writes) |-> Wr(writes[j])]
Text(n) == Format(AsInt(n))

\* C1: performEffect with an effect other than CLICK, DOUBLE_CLICK, TICK,
\* HEAVY_CLICK, POP, THUD reports UNSUPPORTED_OPERATION with duration 0, makes
\* no set() call, leaves every endpoint as it was before the call and leaves
\* mShouldSetBrightness false, from every state and for every strength.
C1_UnsupportedEffectNoWrites ==
    [][(last'.op = "performEffect" /\ last'.effect \notin RecognizedEffects) =>
          /\ last'.status = "UNSUPPORTED_OPERATION"
          /\ last'.timeMs = 0
          /\ writes' = <<>>
          /\ endpoint' = endpoint
          /\ mShouldSetBrightness' = FALSE]_vars

\* An unsupported effect requested while the motor is driven by an earlier effect.
C1_Witness ==
    /\ last.op = "performEffect"
    /\ last.effect = "RINGTONE_1"
    /\ last.status = "UNSUPPORTED_OPERATION"
    /\ endpoint[BRIGHTNESS_PATH] = Text(1)
    /\ endpoint[MODE_PATH] = CStrBytes["waveform"]

\* The descriptor writes of C4, with the value the gain write is said to carry.
C4_Sequences(effect) ==
    CASE effect = "CLICK" -> <<"0 1", "1 0">>
      [] effect = "TICK" -> <<"0 1", "1 0">>
      [] effect = "DOUBLE_CLICK" -> <<"0 1">>
      [] effect = "HEAVY_CLICK" -> <<"0 0", "1 0">>
      [] OTHER -> <<>>

C4_CtrlLoops(effect) ==
    CASE effect = "CLICK" -> <<"0 0x0">>
      [] effect = "TICK" -> <<"1 0x0">>
      [] effect = "DOUBLE_CLICK" -> <<"0 0x0", "1 0x0">>
      [] effect = "HEAVY_CLICK" -> <<"1 0x1">>
      [] OTHER -> <<>>

C4_Descriptor(effect, gainByte) ==
    <<Num(ACTIVATE_PATH, 0), Num(IGNORE_STORE_PATH, 0)>>
    \o (IF effect \in {"POP", "THUD"} THEN <<Num(DURATION_PATH, 0)>> ELSE <<>>)
    \o <<Num(VMAX_PATH, 9), Num(GAIN_PATH, gainByte)>>
    \o [j \in 1..Len(C4_Sequences(effect)) |-> Txt(SEQ_PATH, C4_Sequences(effect)[j])]
    \o [j \in 1..Len(C4_CtrlLoops(effect)) |-> Txt(CTRL_LOOP_PATH, C4_CtrlLoops(effect)[j])]

C4_Order(gainByte) ==
    (last.op = "performEffect" /\ last.effect \in RecognizedEffects) =>
        LET d == C4_Descriptor(last.effect, gainByte)
            n == Len(d)
        IN  /\ Len(writes) = n + 6
            /\ SubSeq(Wrs, 1, n) = d
            /\ writes[n + 1].path = SCALE_PATH
            /\ \A j \in (n + 2)..(n + 6) :
                  writes[j].path \in {CTRL_LOOP_PATH, DURATION_PATH, MODE_PATH,
                                      LRA_WAVE_SHAPE_PATH, BRIGHTNESS_PATH}

C4_StrengthGain(strength) ==
    CASE strength = "LIGHT" -> 54
      [] strength = "MEDIUM" -> 107
      [] strength = "STRONG" -> 107
      [] OTHER -> 0

\* C4 as stated: a recognized effect writes activate 0, ignore_store 0, the
\* duration override 0 (POP and THUD only), vmax 9, the gain byte derived from
\* the strength, every sequence entry, every control-loop entry, in this order,
\* all before the scale write and the writes of on().
C4_OrderWithStrengthGain == C4_Order(C4_StrengthGain(last.strength))

\* C4 amended: the same order, the gain write carrying the constant GAIN (128)
\* whatever the strength; the strength-derived byte is written only afterwards,
\* to the scale node.
C4_OrderWithConstantGain == C4_Order(128)

\* A POP (duration override, no sequence) and a DOUBLE_CLICK (two control loops)
\* are both performed; the witness is the DOUBLE_CLICK at LIGHT strength.
C4_Witness ==
    /\ last.op = "performEffect"
    /\ last.effect = "DOUBLE_CLICK"
    /\ last.strength = "LIGHT"
    /\ Len(writes) = 13
    /\ Wr(writes[4]) = Num(GAIN_PATH, 128)
    /\ Wr(writes[8]) = Num(SCALE_PATH, 54)

\* C5: on(durationMs, isWaveform) writes loop = 1, duration = durationMs, then
\* mode "waveform" and wave shape 1 (isWaveform) or mode "rtp" and wave shape 0,
\* and last brightness 1 when mShouldSetBrightness is set, else brightness 0
\* followed by activate 1; it ends with the motor driven (one of the two
\* channels holds 1).  on() runs as on(timeoutMs) (rtp, flag cleared) and as the
\* tail of a recognized performEffect (waveform, flag set).
C5_OnWrites ==
    (last.op = "on" \/ (last.op = "performEffect" /\ last.status = "OK")) =>
        LET isWaveform == (last.op = "performEffect")
            durationMs == IF isWaveform THEN last.timeMs ELSE last.timeoutMs
            drive == IF mShouldSetBrightness
                     THEN <<Num(BRIGHTNESS_PATH, 1)>>
                     ELSE <<Num(BRIGHTNESS_PATH, 0), Num(ACTIVATE_PATH, 1)>>
            expected == <<Num(CTRL_LOOP_PATH, 1), Num(DURATION_PATH, durationMs)>>
                        \o (IF isWaveform
                            THEN <<Txt(MODE_PATH, "waveform"), Num(LRA_WAVE_SHAPE_PATH, 1)>>
                            ELSE <<Txt(MODE_PATH, "rtp"), Num(LRA_WAVE_SHAPE_PATH, 0)>>)
                        \o drive
            n == Len(writes)
            m == Len(expected)
        IN  /\ n >= m
            /\ SubSeq(Wrs, n - m + 1, n) = expected
            /\ isWaveform = mShouldSetBrightness
            /\ (last.op = "on" => n = m)
            /\ (mShouldSetBrightness =>
                  \A j \in (n - m + 1)..n : writes[j].path # ACTIVATE_PATH)
            /\ \/ endpoint[BRIGHTNESS_PATH] = Text(1)
               \/ endpoint[ACTIVATE_PATH] = Text(1)

\* on(timeoutMs) issued while an effect drives the brightness channel.
C5_Witness ==
    /\ last.op = "on"
    /\ last.timeoutMs = 1
    /\ endpoint[GAIN_PATH] = <<107>>
    /\ endpoint[ACTIVATE_PATH] = Text(1)
    /\ endpoint[BRIGHTNESS_PATH] = Text(0)

\* C6: after off() both the brightness channel and the activate channel hold
\* 0, whichever calls came before and whichever channel was driven; off()
\* returns OK and leaves mShouldSetBrightness as it was.
C6_OffClearsBoth ==
    [][(last'.op = "off") =>
          /\ endpoint'[BRIGHTNESS_PATH] = Text(0)
          /\ endpoint'[ACTIVATE_PATH] = Text(0)
          /\ last'.status = "OK"
          /\ mShouldSetBrightness' = mShouldSetBrightness]_vars

\* off() after an effect (brightness channel driven, flag set) ...
C6_Witness ==
    /\ last.op = "off"
    /\ mShouldSetBrightness
    /\ endpoint[MODE_PATH] = CStrBytes["waveform"]
    /\ endpoint[BRIGHTNESS_PATH] = Text(0)
    /\ endpoint[ACTIVATE_PATH] = Text(0)

\* C7: setAmplitude(0) reports BAD_VALUE and writes nothing; for an amplitude a
\* in 1..255 it reports OK and makes exactly one set() call, on the rtp node,
\* with the integer nearest to (a - 1) * 127 / 254, halves away from zero,
\* which is a div 2, lies in 0..127, is 0 for a = 1 and 127 for a = 255, and
\* does not decrease when a grows; no other node and not the flag changes.
C7_AmplitudeLaw ==
    [][(last'.op = "setAmplitude") =>
          LET a == last'.amplitude
          IN  /\ mShouldSetBrightness' = mShouldSetBrightness
              /\ \A p \in Paths \ {RTP_INPUT_PATH} : endpoint'[p] = endpoint[p]
              /\ IF a = 0
                 THEN /\ last'.status = "BAD_VALUE"
                      /\ writes' = <<>>
                      /\ endpoint' = endpoint
                 ELSE LET v == writes'[1].value.n
                      IN  /\ last'.status = "OK"
                          /\ Len(writes') = 1
                          /\ writes'[1].path = RTP_INPUT_PATH
                          /\ v = a \div 2
                          /\ 254 * (2 * v - 1) <= 2 * 127 * (a - 1)
                          /\ 2 * 127 * (a - 1) < 254 * (2 * v + 1)
                          /\ v \in 0..127
                          /\ (a = 1 => v = 0)
                          /\ (a = 255 => v = 127)
                          /\ endpoint'[RTP_INPUT_PATH] = Text(v)
                          /\ (last.op = "setAmplitude" /\ last.amplitude \in 1..a
                                => writes[1].value.n <= v)]_vars

\* An even amplitude, where (a - 1) * 127 / 254 is a half: setAmplitude(128)
\* writes 64 while an effect is playing.
C7_Witness ==
    /\ last.op = "setAmplitude"
    /\ last.amplitude = 128
    /\ mShouldSetBrightness
    /\ Wr(writes[1]) = Num(RTP_INPUT_PATH, 64)
    /\ endpoint[RTP_INPUT_PATH] = <<54, 52>>

\* The nominal durations of C11, in milliseconds.
C11_NominalMs(effect) ==
    CASE effect = "CLICK" -> 0
      [] effect = "TICK" -> 0
      [] effect = "DOUBLE_CLICK" -> 10
      [] effect = "HEAVY_CLICK" -> 10
      [] effect = "POP" -> 5
      [] effect = "THUD" -> 10

\* C11: a recognized performEffect reports OK with the effect's nominal
\* duration, has mShouldSetBrightness true when on() runs, and runs
\* on(nominal duration, waveform): when it returns the last duration write and
\* the duration node carry the reported duration, the mode node holds
\* "waveform", the brightness channel 1 and the activate channel 0.
C11_RecognizedEffectResult ==
    (last.op = "performEffect" /\ last.effect \in RecognizedEffects) =>
        LET n == Len(writes)
            durationWrites == {j \in 1..n : writes[j].path = DURATION_PATH}
            lastDuration == CHOOSE j \in durationWrites : \A k \in durationWrites : k <= j
        IN  /\ last.status = "OK"
            /\ last.timeMs = C11_NominalMs(last.effect)
            /\ mShouldSetBrightness
            /\ durationWrites # {}
            /\ writes[lastDuration].value.n = last.timeMs
            /\ endpoint[DURATION_PATH] = Text(last.timeMs)
            /\ Wr(writes[n - 2]) = Txt(MODE_PATH, "waveform")
            /\ endpoint[MODE_PATH] = CStrBytes["waveform"]
            /\ Wr(writes[n]) = Num(BRIGHTNESS_PATH, 1)
            /\ endpoint[BRIGHTNESS_PATH] = Text(1)
            /\ endpoint[ACTIVATE_PATH] = Text(0)

\* POP (duration override 0, then the nominal 5) performed after a
\* setAmplitude(128).
C11_Witness ==
    /\ last.op = "performEffect"
    /\ last.effect = "POP"
    /\ last.timeMs = 5
    /\ Wr(writes[3]) = Num(DURATION_PATH, 0)
    /\ endpoint[DURATION_PATH] = Text(5)
    /\ endpoint[RTP_INPUT_PATH] = Text(64)
    /\ endpoint[ACTIVATE_PATH] = Text(0)

\* The step function of C12.
C12_Scale(strength) ==
    CASE strength = "LIGHT" -> 54
      [] strength = "MEDIUM" -> 107
      [] strength = "STRONG" -> 107
      [] OTHER -> 0

\* C12: a recognized performEffect writes 54 (LIGHT), 107 (MEDIUM, STRONG) or
\* 0 (any other strength) to the scale node, after all descriptor writes and
\* before the writes of on(); gain and scale being one node, no later write
\* touches it, so it is what the node holds when brightness 1 is written.
C12_ScaleWrite ==
    (last.op = "performEffect" /\ last.effect \in RecognizedEffects) =>
        LET n == Len(writes)
            k == n - 5
            v == C12_Scale(last.strength)
        IN  /\ Wr(writes[k]) = Num(SCALE_PATH, v)
            /\ SubSeq(Wrs, 1, k - 1) = C4_Descriptor(last.effect, 128)
            /\ \A j \in (k + 1)..n : writes[j].path \notin {SCALE_PATH, GAIN_PATH}
            /\ Wr(writes[k + 1]) = Num(CTRL_LOOP_PATH, 1)
            /\ Wr(writes[n]) = Num(BRIGHTNESS_PATH, 1)
            /\ endpoint[SCALE_PATH] = <<v>>
            /\ endpoint[GAIN_PATH] = <<v>>

\* MEDIUM shares STRONG's byte: TICK at MEDIUM leaves 107 in the gain node.
C12_Witness ==
    /\ last.op = "performEffect"
    /\ last.effect = "TICK"
    /\ last.strength = "MEDIUM"
    /\ Wr(writes[4]) = Num(GAIN_PATH, 128)
    /\ endpoint[GAIN_PATH] = <<107>>
    /\ endpoint[BRIGHTNESS_PATH] = Text(1)

\* C13: off() is idempotent: every off() issues the same two writes,
\* brightness 0 then activate 0, and an off() that follows an off() leaves the
\* state (every node and the flag) as the first one left it; from Idle (both
\* channels 0) off() stays in Idle.
C13_OffIdempotent ==
    [][(last'.op = "off") =>
          /\ Wrs' = <<Num(BRIGHTNESS_PATH, 0), Num(ACTIVATE_PATH, 0)>>
          /\ (last.op = "off" =>
                /\ writes' = writes
                /\ endpoint' = endpoint
                /\ mShouldSetBrightness' = mShouldSetBrightness)
          /\ (endpoint[BRIGHTNESS_PATH] = Text(0) /\ endpoint[ACTIVATE_PATH] = Text(0) =>
                endpoint'[BRIGHTNESS_PATH] = Text(0) /\ endpoint'[ACTIVATE_PATH] = Text(0))]_vars

\* The state an off() leaves after on(timeoutMs): a second off() issues the
\* same writes and arrives at the same nodes.
C13_Witness ==
    /\ last.op = "off"
    /\ endpoint[MODE_PATH] = CStrBytes["rtp"]
    /\ ~mShouldSetBrightness
    /\ offWrites(Start).log = writes
    /\ offWrites(Start).ep = endpoint

\* C16: the flag is set by the most recent performEffect / on(timeoutMs) only:
\* a performEffect leaves it true exactly when its effect is recognized,
\* on(timeoutMs) leaves it false, off() and setAmplitude() leave it as it was;
\* the drive write of on() follows the flag (brightness 1 when it is true,
\* brightness 0 then activate 1 when it is false).
C16_FlagFollowsLastDrive ==
    [][/\ (last'.op = "performEffect" =>
              mShouldSetBrightness' = (last'.effect \in RecognizedEffects))
       /\ (last'.op = "on" => mShouldSetBrightness' = FALSE)
       /\ (last'.op \in {"off", "setAmplitude"} =>
              mShouldSetBrightness' = mShouldSetBrightness)
       /\ (last'.op = "on" \/ (last'.op = "performEffect" /\ last'.status = "OK") =>
              LET n == Len(writes')
              IN  IF mShouldSetBrightness'
                  THEN Wr(writes'[n]) = Num(BRIGHTNESS_PATH, 1)
                  ELSE /\ Wr(writes'[n - 1]) = Num(BRIGHTNESS_PATH, 0)
                       /\ Wr(writes'[n]) = Num(ACTIVATE_PATH, 1))]_vars

\* The flag raised by an effect is still up after off() and setAmplitude(2).
C16_Witness ==
    /\ last.op = "setAmplitude"
    /\ last.amplitude = 2
    /\ mShouldSetBrightness
    /\ endpoint[BRIGHTNESS_PATH] = Text(0)
    /\ endpoint[ACTIVATE_PATH] = Text(0)
    /\ endpoint[MODE_PATH] = CStrBytes["waveform"]

\* The nodes after the first k set() calls of log, every open() succeeding.
RECURSIVE C17_Replay(_, _, _)
C17_Replay(ep, log, k) ==
    IF k = 0 THEN ep
    ELSE [C17_Replay(ep, log, k - 1) EXCEPT ![log[k].path] = Format(log[k].value)]

C17_BothDriven(ep) == ep[BRIGHTNESS_PATH] = Text(1) /\ ep[ACTIVATE_PATH] = Text(1)

\* The set() calls of each call that can come next.
C17_NextLogs ==
    {on_isWaveform(Start, FALSE, timeoutMs, FALSE).log : timeoutMs \in 0..MaxTimeout}
    \cup {offWrites(Start).log}
    \cup {IF amplitude = 0 THEN <<>>
          ELSE set(Start, RTP_INPUT_PATH, AsI32(rtpValue(amplitude))).log :
              amplitude \in AmplitudeSamples}
    \cup {IF effectCase(effect) = None THEN <<>>
          ELSE performWrites(Start, effectCase(effect)[1], strength).log :
              effect \in Effects, strength \in EffectStrengths}

\* C17: with every write succeeding and the calls serialized, the brightness
\* channel and the activate channel never both hold 1: not between calls, and
\* not after any single write of the call that comes next.
C17_NeverBothDriven ==
    /\ ~C17_BothDriven(endpoint)
    /\ \A log \in C17_NextLogs :
          \A k \in 0..Len(log) : ~C17_BothDriven(C17_Replay(endpoint, log, k))

\* on(0) has moved the drive from the brightness channel (an effect at LIGHT
\* strength was playing) to the activate channel.
C17_Witness ==
    /\ last.op = "on"
    /\ last.timeoutMs = 0
    /\ endpoint[GAIN_PATH] = <<54>>
    /\ endpoint[BRIGHTNESS_PATH] = Text(0)
    /\ endpoint[ACTIVATE_PATH] = Text(1)
    /\ C17_Replay(endpoint, offWrites(Start).log, 1)[ACTIVATE_PATH] = Text(1)

(***************************************************************************)
(* Properties of the brightness curve and of getDimAmount.  dim.brightness *)
(* is the argument brightness_to_alpha was called with and dim.alpha what  *)
(* it returned.                                                            *)
(***************************************************************************)
Called == dim.op = "getDimAmount"

\* C2 as stated: brightness_to_alpha returns the first entry's alpha 0xff for
\* every brightness at or below the first entry's brightness 0, negative
\* values such as -5 included.
C2_FloorClamp == (Called /\ dim.brightness <= 0) => dim.alpha = 255

\* The table as the claims index it.
LutB(i) == brightness_alpha_lut_1[i + 1].brightness
LutA(i) == brightness_alpha_lut_1[i + 1].alpha

\* The correction term of C3: 2*t*(brightness - brightness[i]) / dy / divisor.
C3_Sub(i, brightness, divisor) ==
    LET dy == LutA(i) - LutA(i - 1)
        dx == LutB(i) - LutB(i - 1)
        t == brightness - LutB(i - 1)
    IN  IF dx # 0 /\ dy # 0
        THEN CDiv(CDiv(2 * t * (brightness - LutB(i)), dy), divisor)
        ELSE 0

C3_Value(i, brightness, divisor) ==
    LET dy == LutA(i) - LutA(i - 1)
        dx == LutB(i) - LutB(i - 1)
        t == brightness - LutB(i - 1)
        bf == CDiv(2 * dy * t, dx)
    IN  LutA(i - 1) + CDiv(bf, 2) + CRem(bf, 2) + C3_Sub(i, brightness, divisor)

\* C3 as stated: strictly inside segment i the result is
\* alpha[i-1] + factor + plus + sub with sub = 2*t*(brightness - brightness[i])
\* / dy / dx, dx = brightness[i] - brightness[i-1].
C3_InterpolateSubByDx ==
    \A i \in 1..20 :
        (Called /\ LutB(i - 1) < dim.brightness /\ dim.brightness < LutB(i)) =>
            dim.alpha = C3_Value(i, dim.brightness, LutB(i) - LutB(i - 1))

\* C3 amended: the second divisor of sub is brightness[i-1] - brightness[i],
\* that is -dx.
C3_InterpolateSubByMinusDx ==
    \A i \in 1..20 :
        (Called /\ LutB(i - 1) < dim.brightness /\ dim.brightness < LutB(i)) =>
            dim.alpha = C3_Value(i, dim.brightness, LutB(i - 1) - LutB(i))

\* Brightness 900 in segment 800..1023, where the correction term is -4 and
\* bf is odd and negative.
C3_Witness ==
    /\ Called
    /\ dim.brightness = 900
    /\ C3_Sub(19, 900, LutB(18) - LutB(19)) = -4
    /\ CRem(CDiv(2 * (LutA(19) - LutA(18)) * 100, 223), 2) = -1
    /\ dim.alpha = 66 - 10 - 1 - 4

C9_CeilingClamp == (Called /\ dim.brightness >= 2000) => dim.alpha = 131

C9_Witness ==
    /\ Called
    /\ dim.brightness = 2001
    /\ scan(0, 2000) = 20
    /\ scan(0, 2001) = 21
    /\ dim.alpha = 131

\* C10: for every table index k > 0, brightness_to_alpha(brightness[k])
\* returns alpha[k] (e.g. 0xb9 at brightness 100).
C10_ExactAtTableBrightness ==
    \A k \in 1..20 : (Called /\ dim.brightness = LutB(k)) => dim.alpha = LutA(k)

C10_Witness ==
    /\ Called
    /\ dim.brightness = 100
    /\ scan(0, 100) = 11
    /\ dim.alpha = 185

\* C19: for every brightness read, the negative ones included,
\* brightness_to_alpha returns a value in 0..255, and on the table segment the
\* scan stops in none of the divisors of interpolate is zero: bf's divisor
\* xb - xa and the correction term's divisors yb - ya and xa - xb.
C19_AlphaRangeNoZeroDivisor ==
    Called =>
        /\ dim.alpha \in 0..255
        /\ LET i == scan(0, dim.brightness)
           IN  (0 < i /\ i < ARRAY_SIZE) =>
                   /\ LutB(i) - LutB(i - 1) # 0
                   /\ LutA(i) - LutA(i - 1) # 0
                   /\ LutB(i - 1) - LutB(i) # 0

\* Brightness 1500 in the last segment 1023..2000, the one whose alphas rise:
\* the divisors are 977, 89 and -977 and the result is 90.
C19_Witness ==
    /\ Called
    /\ dim.brightness = 1500
    /\ scan(0, 1500) = 20
    /\ LutB(20) - LutB(19) = 977
    /\ LutA(20) - LutA(19) = 89
    /\ dim.alpha = 90

\* The segment a brightness lies strictly inside, as a set (empty or one index).
C20_Segment(brightness) ==
    {i \in 1..20 : LutB(i - 1) < brightness /\ brightness < LutB(i)}

C20_Min(i) == IF LutA(i - 1) < LutA(i) THEN LutA(i - 1) ELSE LutA(i)
C20_Max(i) == IF LutA(i - 1) < LutA(i) THEN LutA(i) ELSE LutA(i - 1)

\* C20 as stated: strictly inside a segment the result lies between the two
\* bracketing alphas, and over 0..1023 the result at brightness + 1 is never
\* above the result at brightness.
C20_WithinBracketNonIncreasing ==
    Called =>
        /\ \A i \in C20_Segment(dim.brightness) :
              C20_Min(i) <= dim.alpha /\ dim.alpha <= C20_Max(i)
        /\ (0 <= dim.brightness /\ dim.brightness < 1023) =>
              brightness_to_alpha(dim.brightness + 1) <= dim.alpha

\* C20 amended: strictly inside a segment the result lies between the two
\* bracketing alphas except at brightness 5, where it is 234, one below the
\* smaller bracketing alpha 235; over 0..1023 the result at brightness + 1 is
\* at most one above the result at brightness.
C20_WithinBracketButAtFive ==
    Called =>
        /\ \A i \in C20_Segment(dim.brightness) :
              IF dim.brightness = 5
              THEN dim.alpha = C20_Min(i) - 1 /\ dim.alpha = 234
              ELSE C20_Min(i) <= dim.alpha /\ dim.alpha <= C20_Max(i)
        /\ (0 <= dim.brightness /\ dim.brightness < 1023) =>
              brightness_to_alpha(dim.brightness + 1) <= dim.alpha + 1

\* Brightness 5 inside segment 4..6 (alphas 236 and 235): the result 234 is
\* below both, and the result at 6 is above it.
C20_Witness ==
    /\ Called
    /\ dim.brightness = 5
    /\ C20_Segment(5) = {5}
    /\ C20_Min(5) = 235
    /\ dim.alpha = 234
    /\ brightness_to_alpha(6) = 235

(***************************************************************************)
(* Properties of the callback reference, its lock and handleAcquired.      *)
(***************************************************************************)
\* Thread t is between taking mCallbackLock and the end of its guard.
C14_InCriticalSection(t) ==
    pc[t] \in {"setCallback_locked", "handleAcquired_locked", "handleAcquired_invoking"}

\* A thread in a critical section owns the lock, and an invocation in flight
\* was made on the non-null reference mCallback still holds.
C14_Exclusive ==
    \A t \in Threads :
        /\ C14_InCriticalSection(t) => mCallbackLock = t
        /\ pc[t] = "handleAcquired_invoking" =>
              /\ frame[t].target # nullptr
              /\ frame[t].target = mCallback

\* mCallback changes only in the store of a setCallback that owns the lock,
\* while no handleAcquired is between its lock and its return.
C14_StoreExcluded ==
    mCallback' # mCallback =>
        /\ \E t \in Threads :
              /\ pc[t] = "setCallback_locked"
              /\ mCallbackLock = t
              /\ mCallback' = frame[t].callback
        /\ \A u \in Threads :
              pc[u] \notin {"handleAcquired_locked", "handleAcquired_invoking"}

\* C14: under any interleaving of setCallback and handleAcquired calls the
\* registration and the invocation are mutually exclusive critical sections
\* on mCallbackLock: onFingerDown / onFingerUp is invoked on the reference
\* handleAcquired found non-null under the same lock acquisition, which is
\* the one the last completed setCallback stored, and mCallback does not
\* change while an invocation is in flight.
C14_CallbackLockExcludes == []C14_Exclusive /\ [][C14_StoreExcluded]_vars

\* Thread 1 is invoking cb1 under the lock while thread 2's setCallback(nullptr)
\* waits for the lock.
C14_Witness ==
    /\ pc[1] = "handleAcquired_invoking"
    /\ frame[1].target = "cb1"
    /\ mCallback = "cb1"
    /\ mCallbackLock = 1
    /\ pc[2] = "setCallback_lock"
    /\ frame[2].callback = nullptr

C18_Expected(t) ==
    IF /\ mCallback # nullptr
       /\ frame[t].acquiredInfo = 6
       /\ lastView = "onShowFODView"
       /\ frame[t].vendorCode \in {0, 1}
    THEN (IF frame[t].vendorCode = 0 THEN "onFingerDown" ELSE "onFingerUp")
    ELSE "none"

C18_Step(t) ==
    /\ (pc[t] = "handleAcquired_locked" /\ pc'[t] # pc[t]) =>
          IF C18_Expected(t) = "none"
          THEN /\ pc'[t] = "idle"
               /\ returned'[t] = Returned("handleAcquired", "false", <<>>, FALSE)
          ELSE /\ pc'[t] = "handleAcquired_invoking"
               /\ frame'[t].method = C18_Expected(t)
               /\ frame'[t].target = mCallback
    /\ (pc[t] = "handleAcquired_invoking" /\ pc'[t] # pc[t]) =>
          /\ pc'[t] = "idle"
          /\ returned'[t].op = "handleAcquired"
          /\ returned'[t].result = "true"
          /\ returned'[t].invoked = <<frame[t].method>>

C18_Returned ==
    \A t \in Threads :
        returned[t].op = "handleAcquired" =>
            \/ returned[t].result = "true" /\ Len(returned[t].invoked) = 1
            \/ returned[t].result = "false" /\ returned[t].invoked = <<>>

\* C18: handleAcquired returns true and invokes exactly one callback method
\* if and only if a callback is registered, acquiredInfo is 6, the FOD view
\* is shown (onShowFODView was called more recently than onHideFODView, and
\* at least once) and vendorCode is 0 (onFingerDown) or 1 (onFingerUp); in
\* every other case it returns false and invokes nothing.  The result is true
\* whether the invocation comes back ok or with an error.
C18_TrueIffOneInvocation ==
    []C18_Returned /\ [][\A t \in Threads : C18_Step(t)]_vars

\* A handleAcquired that invoked onFingerUp, got an error back, logged it and
\* returned true.
C18_Witness ==
    \E t \in Threads :
        returned[t] = Returned("handleAcquired", "true", <<"onFingerUp">>, TRUE)

====
